---- MODULE Spec2Model ----
(***************************************************************************)
(* The instance lifecycle manager of pocketploy: InstanceService           *)
(* (backend/internal/services/instance_service.go) over the instances and  *)
(* instances_archive tables (models/instance.go, migrations 003-005) and   *)
(* the Docker client (docker/client.go).  Every service call runs in the   *)
(* goroutine of its HTTP request; calls share only the database and the    *)
(* Docker daemon, so a call is modelled as a sequence of steps, one per    *)
(* database statement or Docker call, that interleave freely with the      *)
(* steps of the other calls in flight.                                     *)
(***************************************************************************)
EXTENDS Integers, Sequences, FiniteSets, TLC

\* ------------------------------------------------------------------ bounds

\* Rows ever inserted into the instances table (ids are 1..MaxRows).
MaxRows == 2
\* Service calls made in a behaviour.
MaxCalls == 3
\* Service calls in flight at the same time.
NumSlots == 2
\* config.MaxInstancesPerUser (MAX_INSTANCES_PER_USER), taken small.
MaxInstancesPerUser == 1
\* Distinct values of last_accessed_at a row can take after NULL.
MaxTouch == 1
\* The last tick of the wall clock.
MaxClock == 3
\* Clock ticks in a day.
TicksPerDay == 2
\* The longest of the short names requested (SpecNaming).
MaxNameLen == 4

Ids == 1..MaxRows
Slots == 1..NumSlots
NULL == 0

\* ------------------------------------------------------------------- users

\* The authenticated callers: user id -> username.
Users == {1, 2}
Username(u) == IF u = 1 THEN <<"a">> ELSE <<"a", "-", "b">>

\* config.BaseDomain
BaseDomain == <<"e", "x", ".", "i", "o">>

\* ------------------------------------------------------------ naming engine

LowerLetters == {"a", "b", "c"}
UpperLetters == {"A", "B", "C"}
Digits == {"0", "1"}
\* \s of Go's regexp: [\t\n\f\r ]
WhiteSpace == {" ", "\t"}

\* strings.ToLower on one character
ToLowerChar(c) ==
    CASE c = "A" -> "a"
      [] c = "B" -> "b"
      [] c = "C" -> "c"
      [] OTHER -> c

\* strings.ToLower
ToLower(s) == [k \in 1..Len(s) |-> ToLowerChar(s[k])]

\* strings.ReplaceAll(s, old, new) for one-character old and new
ReplaceAll(s, old, new) == [k \in 1..Len(s) |-> IF s[k] = old THEN new ELSE s[k]]

\* regexp [^a-z0-9-]+ replaced by "": keeps the characters of [a-z0-9-]
StripInvalid(s) == SelectSeq(s, LAMBDA c : c \in LowerLetters \cup Digits \cup {"-"})

\* regexp -+ replaced by "-": a hyphen that follows a hyphen is dropped
CollapseHyphens(s) ==
    LET kept == SelectSeq([k \in 1..Len(s) |-> k],
                          LAMBDA k : ~(k > 1 /\ s[k] = "-" /\ s[k - 1] = "-"))
    IN [j \in 1..Len(kept) |-> s[kept[j]]]

\* strings.Trim(s, "-"): from the first to the last character that is not a
\* hyphen
TrimLeft(s) ==
    LET others == {k \in 1..Len(s) : s[k] # "-"} IN
    IF others = {} THEN <<>>
    ELSE SubSeq(s, CHOOSE k \in others : \A j \in others : k <= j, Len(s))
TrimRight(s) ==
    LET others == {k \in 1..Len(s) : s[k] # "-"} IN
    IF others = {} THEN <<>>
    ELSE SubSeq(s, 1, CHOOSE k \in others : \A j \in others : k >= j)
Trim(s) == TrimRight(TrimLeft(s))

\* InstanceService.validateInstanceName: nil error iff TRUE
validateInstanceName(name) ==
    /\ Len(name) >= 3
    /\ Len(name) <= 100
    /\ \A k \in 1..Len(name) :
          name[k] \in LowerLetters \cup UpperLetters \cup Digits \cup WhiteSpace \cup {"-", "_"}

\* Mutant: the hyphens are trimmed before the other characters are stripped.
generateSlugTrimFirst(name) ==
    CollapseHyphens(StripInvalid(Trim(
        ReplaceAll(ReplaceAll(ToLower(name), " ", "-"), "_", "-"))))

\* InstanceService.generateSlug
generateSlug(name) ==
    Trim(CollapseHyphens(StripInvalid(
        ReplaceAll(ReplaceAll(ToLower(name), " ", "-"), "_", "-"))))

\* InstanceService.generateSubdomain: "%s-%s.%s"
generateSubdomain(username, slug) == username \o <<"-">> \o slug \o <<".">> \o BaseDomain

\* InstanceService.generateContainerName: "pb-%s-%s"
generateContainerName(username, slug) == <<"p", "b", "-">> \o username \o <<"-">> \o slug

\* InstanceService.generateStoragePath: filepath.Join(base, username, slug)
generateStoragePath(username, slug) == <<username, slug>>

\* The names callers ask for.
Names == { <<"c", "c", "c">>,
           <<"B", " ", "c", "c", "c">>,
           <<"c", "!">> }

\* The CreateInstance requests made: (caller, name)
CreateInputs == {<<1, <<"c", "c", "c">>>>,
                 <<1, <<"C", "C", "C">>>>,
                 <<1, <<"B", " ", "c", "c", "c">>>>,
                 <<2, <<"c", "c", "c">>>>,
                 <<2, <<"c", "!">>>>}

\* ------------------------------------------------------------------- state

VARIABLES
    instances,   \* the instances table: id -> row, NoRow where there is none
    archive,     \* the instances_archive table: its rows in insertion order
    containers,  \* the Docker daemon: container id -> container, NoContainer
    slots,       \* the service calls in flight
    nextId,      \* the next id the instances table hands out
    ncalls,      \* the number of service calls made so far
    ret,         \* what the step just taken returned to its caller, NoRet if
                 \* the step did not end a call
    clock,       \* the wall clock time.Now() reads, in ticks
    arch,        \* the call of models.ArchiveInstance in flight (SpecArchive)
    sweep,       \* the retention sweep: the run in flight and the last
                 \* one that completed (SpecSweep)
    naming       \* a CreateInstance request followed through the statements
                 \* that touch neither the database nor Docker (SpecNaming)

vars == <<instances, archive, containers, slots, nextId, ncalls, ret, clock, arch, sweep,
         naming>>

\* models.InstanceStatus*
InstanceStatusCreating == "creating"
InstanceStatusRunning == "running"
InstanceStatusStopped == "stopped"
InstanceStatusFailed == "failed"

\* models.Instance (timestamps other than last_accessed_at left out)
NoRow == [user_id |-> 0, name |-> <<>>, slug |-> <<>>, subdomain |-> <<>>,
          container_id |-> NULL, container_name |-> <<>>, status |-> "none",
          data_path |-> <<>>, last_accessed_at |-> NULL]

NoContainer == [state |-> "none", name |-> <<>>]

\* container.RemoveOptions of the ContainerRemove a call has issued; both
\* false (the zero value) when it has issued none.
NoRemoveOptions == [Force |-> FALSE, RemoveVolumes |-> FALSE]

\* A service call in flight: the operation, its caller, its arguments, the
\* statement it executes next, the local variables that statement and the
\* later ones read (inst: the *models.Instance it holds; cid: the container
\* id), and the Docker calls it has made so far.
Idle == [op |-> "idle", user |-> 0, name |-> <<>>, id |-> 0, pc |-> "idle",
         inst |-> NoRow, rt |-> <<>>, removeOptions |-> NoRemoveOptions]

\* No call of models.ArchiveInstance is in flight.  Of a call in flight:
\* the id of params.Instance, params.DeletedByUserID, and the locals
\* retentionDays and dataRetainedUntil.
NoArchiveCall == [pc |-> "idle", id |-> 0, by |-> 0, retentionDays |-> 0,
                  dataRetainedUntil |-> 0]

\* No retention sweep is running and none has completed.  Of a sweep: the
\* ids the query returned (found), those not yet flipped (pending), the clock
\* and the size of the archive at the query (at, len), and the same two of
\* the last sweep that completed (lastAt, lastLen).
NoSweep == [pc |-> "idle", found |-> {}, pending |-> {}, at |-> 0, len |-> 0,
            lastAt |-> -1, lastLen |-> 0]

NoRet == [op |-> "none", user |-> 0, id |-> 0, result |-> "none", rt |-> <<>>,
          removeOptions |-> NoRemoveOptions]

Return(c, result) ==
    [op |-> c.op, user |-> c.user, id |-> c.id, result |-> result, rt |-> c.rt,
     removeOptions |-> c.removeOptions]

\* A caller makes one more call.
NewCall == ncalls < MaxCalls /\ ncalls' = ncalls + 1

\* The ids handed out so far: the ids a caller can know
KnownIds == 1..(nextId - 1)

LiveIds == {i \in Ids : instances[i].status # "none"}

\* ------------------------------------------------- models: instances table

\* models.FindInstanceByID: the row, NoRow for sql.ErrNoRows
FindInstanceByID(id) == IF id \in Ids THEN instances[id] ELSE NoRow

\* models.FindInstancesByUserID: the ids of the rows returned
FindInstancesByUserID(u) == {i \in LiveIds : instances[i].user_id = u}

\* models.FindInstanceBySubdomain: the ids of the rows that match
FindInstanceBySubdomain(sub) == {i \in LiveIds : instances[i].subdomain = sub}

\* models.CountUserInstances: SELECT COUNT(*) ... WHERE user_id = $1 AND status != 'failed'
CountUserInstances(u) ==
    Cardinality({i \in LiveIds : instances[i].user_id = u
                                 /\ instances[i].status # InstanceStatusFailed})

\* Mutant: the table has no UNIQUE constraint.
InsertAlwaysAllowed(row) == TRUE

\* The UNIQUE constraints of the instances table (subdomain, container_name)
InsertAllowed(row) ==
    \A i \in LiveIds : /\ instances[i].subdomain # row.subdomain
                       /\ instances[i].container_name # row.container_name

\* Instance.UpdateStatus: UPDATE instances SET status = $1 WHERE id = $2
UpdateStatus(id, status) == [instances EXCEPT ![id].status = status]

\* Mutant: the statement sets the container name only.
UpdateContainerInfoNameOnly(id, cid, cname) ==
    [instances EXCEPT ![id].container_name = cname]

\* Instance.UpdateContainerInfo: UPDATE instances SET container_id, container_name
UpdateContainerInfo(id, cid, cname) ==
    [instances EXCEPT ![id].container_id = cid, ![id].container_name = cname]

\* Instance.UpdateLastAccessed: UPDATE instances SET last_accessed_at = NOW();
\* a later NOW() is a later value, up to MaxTouch distinct ones
UpdateLastAccessed(id) ==
    [instances EXCEPT ![id].last_accessed_at =
        IF @ < MaxTouch THEN @ + 1 ELSE @]

\* Instance.Delete: DELETE FROM instances WHERE id = $1
DeleteRowOf(id) == [instances EXCEPT ![id] = NoRow]

\* ------------------------------------------ models: instances_archive table

\* Mutant: DataAvailable is left at its zero value.
ArchivedInstanceUnavailable(inst, id, deletedBy) ==
    [id |-> id, user_id |-> inst.user_id, name |-> inst.name, slug |-> inst.slug,
     subdomain |-> inst.subdomain, container_id |-> inst.container_id,
     container_name |-> inst.container_name, original_status |-> inst.status,
     data_path |-> inst.data_path, last_accessed_at |-> inst.last_accessed_at,
     deleted_by_user_id |-> deletedBy, deletion_reason |-> "manual",
     data_available |-> FALSE]

\* The ArchivedInstance that models.ArchiveInstance builds from the
\* *models.Instance it is given.
ArchivedInstance(inst, id, deletedBy) ==
    [id |-> id, user_id |-> inst.user_id, name |-> inst.name, slug |-> inst.slug,
     subdomain |-> inst.subdomain, container_id |-> inst.container_id,
     container_name |-> inst.container_name, original_status |-> inst.status,
     data_path |-> inst.data_path, last_accessed_at |-> inst.last_accessed_at,
     deleted_by_user_id |-> deletedBy, deletion_reason |-> "manual",
     data_available |-> TRUE]

\* Mutant: instances_archive without its primary key.
ArchiveInsertAlwaysAllowed(id) == TRUE

\* instances_archive: id UUID PRIMARY KEY
ArchiveInsertAllowed(id) == \A k \in 1..Len(archive) : archive[k].id # id

\* The archived rows of an instance id
ArchivedOf(id) == {k \in 1..Len(archive) : archive[k].id = id}

\* ------------------------------------------------------------ Docker client

\* ContainerCreate refuses a name that a container already has
NameFree(cname) == \A c \in Ids : containers[c].state = "none" \/ containers[c].name # cname

\* The daemon knows the container
Exists(cid) == cid \in Ids /\ containers[cid].state # "none"

\* ---------------------------------------------------------- CreateInstance

\* Mutant: the row is inserted as running.
NewRowRunning(u, name) ==
    LET slug == generateSlug(name) IN
    [user_id |-> u, name |-> name, slug |-> slug,
     subdomain |-> generateSubdomain(Username(u), slug),
     container_id |-> NULL,
     container_name |-> generateContainerName(Username(u), slug),
     status |-> InstanceStatusRunning,
     data_path |-> generateStoragePath(Username(u), slug),
     last_accessed_at |-> NULL]

\* The row CreateInstance inserts (instance_service.go:87-97)
NewRow(u, name) ==
    LET slug == generateSlug(name) IN
    [user_id |-> u, name |-> name, slug |-> slug,
     subdomain |-> generateSubdomain(Username(u), slug),
     container_id |-> NULL,
     container_name |-> generateContainerName(Username(u), slug),
     status |-> InstanceStatusCreating,
     data_path |-> generateStoragePath(Username(u), slug),
     last_accessed_at |-> NULL]

\* Mutant: the quota check compares with > instead of >=.
QuotaReachedOffByOne(u) == CountUserInstances(u) > MaxInstancesPerUser

\* The quota check of CreateInstance: count >= s.config.MaxInstancesPerUser
QuotaReached(u) == CountUserInstances(u) >= MaxInstancesPerUser

\* CreateInstance up to the quota check: validateInstanceName, then
\* CountUserInstances (which may fail), then the comparison.
CreateBegin(s, u, name) ==
    /\ slots[s] = Idle
    /\ NewCall
    /\ LET c == [Idle EXCEPT !.op = "create", !.user = u, !.name = name] IN
       IF ~validateInstanceName(name)
       THEN /\ ret' = Return(c, "invalid_name")
            /\ UNCHANGED slots
       ELSE \/ /\ ret' = Return(c, "db_error")
               /\ UNCHANGED slots
            \/ /\ QuotaReached(u)
               /\ ret' = Return(c, "quota_exceeded")
               /\ UNCHANGED slots
            \/ /\ ~QuotaReached(u)
               /\ nextId <= MaxRows
               /\ slots' = [slots EXCEPT ![s] = [c EXCEPT !.pc = "c_find"]]
               /\ ret' = NoRet
    /\ UNCHANGED <<instances, archive, containers, nextId, clock, arch, sweep, naming>>

\* existing, _ := FindInstanceBySubdomain: an error of the query is dropped
\* and the call goes on as if no row had the subdomain.
CreateFind(s) ==
    /\ slots[s].pc = "c_find"
    /\ LET c == slots[s]
           sub == NewRow(c.user, c.name).subdomain IN
       \/ /\ FindInstanceBySubdomain(sub) # {}
          /\ slots' = [slots EXCEPT ![s] = Idle]
          /\ ret' = Return(c, "conflict")
       \/ /\ FindInstanceBySubdomain(sub) = {}
          /\ slots' = [slots EXCEPT ![s].pc = "c_insert"]
          /\ ret' = NoRet
       \/ /\ slots' = [slots EXCEPT ![s].pc = "c_insert"]
          /\ ret' = NoRet
    /\ UNCHANGED <<instances, archive, containers, nextId, ncalls, clock, arch, sweep, naming>>

\* instance.Create: INSERT INTO instances ... RETURNING id
CreateInsert(s) ==
    /\ slots[s].pc = "c_insert"
    /\ LET c == slots[s]
           row == NewRow(c.user, c.name) IN
       \/ /\ InsertAllowed(row)
          /\ nextId <= MaxRows
          /\ instances' = [instances EXCEPT ![nextId] = row]
          /\ nextId' = nextId + 1
          /\ slots' = [slots EXCEPT ![s].pc = "c_container", ![s].id = nextId]
          /\ ret' = NoRet
       \/ /\ slots' = [slots EXCEPT ![s] = Idle]
          /\ ret' = Return(c, "insert_failed")
          /\ UNCHANGED <<instances, nextId>>
    /\ UNCHANGED <<archive, containers, ncalls, clock, arch, sweep, naming>>

\* Client.RemoveContainer: container.RemoveOptions{Force: true,
\* RemoveVolumes: true}
RemoveContainerOptions == [Force |-> TRUE, RemoveVolumes |-> TRUE]

\* CreatePocketBaseContainer after a failed start:
\* container.RemoveOptions{Force: true}
StartFailedRemoveOptions == [Force |-> TRUE, RemoveVolumes |-> FALSE]

\* Mutant: the return after the failed container creation is missing.
AfterContainerErrorNoReturn(c) == [c EXCEPT !.pc = "c_info"]

\* What CreateInstance does after CreatePocketBaseContainer failed and the
\* status was set: return nil, fmt.Errorf("failed to create container")
AfterContainerError(c) == Idle

\* dockerClient.CreatePocketBaseContainer (MkdirAll and the entrypoint file,
\* pull, ContainerCreate, ContainerStart, and ContainerRemove when the start
\* fails), and on its error UpdateStatus(failed), whose own error is dropped.
\* The container takes the id of the row it is created for.
CreateContainer(s) ==
    /\ slots[s].pc = "c_container"
    /\ LET c == slots[s]
           cname == NewRow(c.user, c.name).container_name
           failed(dcalls) ==
               /\ slots' = [slots EXCEPT ![s] = AfterContainerError(
                                [c EXCEPT !.rt = dcalls,
                                          !.removeOptions =
                                              IF Len(dcalls) = 4 THEN StartFailedRemoveOptions
                                              ELSE @])]
               /\ ret' = Return([c EXCEPT !.rt = dcalls,
                                          !.removeOptions =
                                              IF Len(dcalls) = 4 THEN StartFailedRemoveOptions
                                              ELSE @], "container_failed")
               /\ \/ instances' = IF instances[c.id].status # "none"
                                  THEN UpdateStatus(c.id, InstanceStatusFailed)
                                  ELSE instances
                  \/ UNCHANGED instances
       IN
       \/ \* the storage directory or the entrypoint file cannot be written
          /\ failed(<<>>)
          /\ UNCHANGED containers
       \/ \* the pull fails
          /\ failed(<<"pull">>)
          /\ UNCHANGED containers
       \/ \* ContainerCreate fails (always when the name is taken)
          /\ failed(<<"pull", "create">>)
          /\ UNCHANGED containers
       \/ \* ContainerStart fails and the container is removed
          /\ NameFree(cname)
          /\ failed(<<"pull", "create", "start", "remove">>)
          /\ UNCHANGED containers
       \/ \* ContainerStart fails and so does the removal
          /\ NameFree(cname)
          /\ failed(<<"pull", "create", "start", "remove">>)
          /\ containers' = [containers EXCEPT ![c.id] = [state |-> "exited", name |-> cname]]
       \/ \* created and started
          /\ NameFree(cname)
          /\ containers' = [containers EXCEPT ![c.id] = [state |-> "running", name |-> cname]]
          /\ slots' = [slots EXCEPT ![s].pc = "c_info",
                                    ![s].rt = <<"pull", "create", "start">>]
          /\ ret' = NoRet
          /\ UNCHANGED instances
    /\ UNCHANGED <<archive, nextId, ncalls, clock, arch, sweep, naming>>

\* instance.UpdateContainerInfo; when it fails (the statement fails, or no
\* row has the id) the container is removed, the error of the removal dropped.
CreateUpdateInfo(s) ==
    /\ slots[s].pc = "c_info"
    /\ LET c == slots[s] IN
       \/ /\ instances[c.id].status # "none"
          /\ instances' = UpdateContainerInfo(c.id, c.id, NewRow(c.user, c.name).container_name)
          /\ slots' = [slots EXCEPT ![s].pc = "c_status"]
          /\ UNCHANGED containers
       \/ /\ slots' = [slots EXCEPT ![s].pc = "c_info_failed", ![s].rt = Append(@, "remove"),
                                    ![s].removeOptions = RemoveContainerOptions]
          /\ \/ containers' = [containers EXCEPT ![c.id] = NoContainer]
             \/ UNCHANGED containers
          /\ UNCHANGED instances
    /\ ret' = NoRet
    /\ UNCHANGED <<archive, nextId, ncalls, clock, arch, sweep, naming>>

\* ... then _ = instance.UpdateStatus(failed) and the error is returned.
CreateInfoFailed(s) ==
    /\ slots[s].pc = "c_info_failed"
    /\ LET c == slots[s] IN
       /\ \/ /\ instances[c.id].status # "none"
             /\ instances' = UpdateStatus(c.id, InstanceStatusFailed)
          \/ UNCHANGED instances
       /\ ret' = Return(c, "update_failed")
    /\ slots' = [slots EXCEPT ![s] = Idle]
    /\ UNCHANGED <<archive, containers, nextId, ncalls, clock, arch, sweep, naming>>

\* instance.UpdateStatus(running), then the URL is returned.
CreateUpdateStatus(s) ==
    /\ slots[s].pc = "c_status"
    /\ LET c == slots[s] IN
       \/ /\ instances[c.id].status # "none"
          /\ instances' = UpdateStatus(c.id, InstanceStatusRunning)
          /\ ret' = Return(c, "ok")
       \/ /\ ret' = Return(c, "status_failed")
          /\ UNCHANGED instances
    /\ slots' = [slots EXCEPT ![s] = Idle]
    /\ UNCHANGED <<archive, containers, nextId, ncalls, clock, arch, sweep, naming>>

\* ------------------------------------------------------------- GetInstance

\* Mutant: the ownership check is missing.
OwnedByAnyone(row, u) == row.status # "none"

\* The ownership check: the row exists and instance.UserID == userID
OwnedBy(row, u) == row.status # "none" /\ row.user_id = u

\* Mutant: the check of the container id is missing.
HasContainerAlways(row) == TRUE

\* instance.ContainerID != nil && *instance.ContainerID != ""
HasContainer(row) == row.container_id # NULL

\* GetInstance: FindInstanceByID (which may fail), the ownership check,
\* UpdateLastAccessed (its error dropped).
GetInstance(u, i) ==
    /\ NewCall
    /\ LET c == [Idle EXCEPT !.op = "get", !.user = u, !.id = i]
           row == FindInstanceByID(i) IN
       \/ /\ ret' = Return(c, "db_error")
          /\ UNCHANGED instances
       \/ IF OwnedBy(row, u)
          THEN /\ \/ instances' = UpdateLastAccessed(i)
                  \/ UNCHANGED instances
               /\ ret' = Return(c, "ok")
          ELSE /\ ret' = Return(c, "not_found")
               /\ UNCHANGED instances
    /\ UNCHANGED <<archive, containers, slots, nextId, clock, arch, sweep, naming>>

\* ListUserInstances: the rows returned
ListUserInstances(u) == FindInstancesByUserID(u)

\* ------------------------------------------ GetInstanceLogs, GetInstanceStats

\* GetInstanceLogs / GetInstanceStats: GetInstance, the check of the
\* container id, then dockerClient.GetContainerLogs / GetContainerStats
\* (ContainerLogs, ContainerInspect), which only read the daemon: the call
\* is one step.
ReadContainer(op, u, i) ==
    /\ NewCall
    /\ LET c == [Idle EXCEPT !.op = op, !.user = u, !.id = i]
           row == FindInstanceByID(i) IN
       \/ /\ ret' = Return(c, "db_error")
          /\ UNCHANGED instances
       \/ IF ~OwnedBy(row, u)
          THEN /\ ret' = Return(c, "not_found")
               /\ UNCHANGED instances
          ELSE /\ \/ instances' = UpdateLastAccessed(i)
                  \/ UNCHANGED instances
               /\ IF ~HasContainer(row)
                  THEN ret' = Return(c, "no_container")
                  ELSE \/ /\ Exists(row.container_id)
                          /\ ret' = Return([c EXCEPT !.rt = <<op>>], "ok")
                       \/ ret' = Return([c EXCEPT !.rt = <<op>>], "runtime_failed")
    /\ UNCHANGED <<archive, containers, slots, nextId, clock, arch, sweep, naming>>

GetInstanceLogs(u, i) == ReadContainer("logs", u, i)
GetInstanceStats(u, i) == ReadContainer("stats", u, i)

\* ------------------------------------ StartInstance, StopInstance, Restart

\* Mutant: neither Start nor Stop checks the status.
RejectedStatusNever(op) == "never"

\* The status the operation rejects: Start when running, Stop when stopped
RejectedStatus(op) ==
    CASE op = "start" -> InstanceStatusRunning
      [] op = "stop" -> InstanceStatusStopped
      [] OTHER -> "never"

\* The status the operation writes on success
TargetStatus(op) == IF op = "stop" THEN InstanceStatusStopped ELSE InstanceStatusRunning

\* The state the Docker call leaves the container in
TargetState(op) == IF op = "stop" THEN "exited" ELSE "running"

\* GetInstance and the checks of StartInstance / StopInstance / RestartInstance
LifecycleBegin(s, op, u, i) ==
    /\ slots[s] = Idle
    /\ NewCall
    /\ LET c == [Idle EXCEPT !.op = op, !.user = u, !.id = i]
           row == FindInstanceByID(i) IN
       \/ /\ ret' = Return(c, "db_error")
          /\ UNCHANGED <<instances, slots>>
       \/ IF ~OwnedBy(row, u)
          THEN /\ ret' = Return(c, "not_found")
               /\ UNCHANGED <<instances, slots>>
          ELSE /\ \/ instances' = UpdateLastAccessed(i)
                  \/ UNCHANGED instances
               /\ IF ~HasContainer(row)
                  THEN ret' = Return(c, "no_container") /\ UNCHANGED slots
                  ELSE IF row.status = RejectedStatus(op)
                  THEN ret' = Return(c, "invalid_state") /\ UNCHANGED slots
                  ELSE /\ slots' = [slots EXCEPT ![s] =
                                      [c EXCEPT !.pc = "l_runtime",
                                                !.inst = [NoRow EXCEPT !.container_id = row.container_id]]]
                       /\ ret' = NoRet
    /\ UNCHANGED <<archive, containers, nextId, clock, arch, sweep, naming>>

\* Mutant: a failed Docker call marks the row failed.
AfterRuntimeErrorFailed(c) ==
    IF instances[c.id].status # "none"
    THEN UpdateStatus(c.id, InstanceStatusFailed)
    ELSE instances

\* The instances table after the Docker call of Start / Stop / Restart
\* failed: the error is returned and no statement is executed.
AfterRuntimeError(c) == instances

\* dockerClient.StartContainer / StopContainer / RestartContainer
LifecycleRuntime(s) ==
    /\ slots[s].pc = "l_runtime"
    /\ LET c == [slots[s] EXCEPT !.rt = Append(@, slots[s].op)]
           cid == c.inst.container_id IN
       \/ /\ Exists(cid)
          /\ containers' = [containers EXCEPT ![cid].state = TargetState(c.op)]
          /\ slots' = [slots EXCEPT ![s] = [c EXCEPT !.pc = "l_status"]]
          /\ ret' = NoRet
          /\ UNCHANGED instances
       \/ /\ slots' = [slots EXCEPT ![s] = Idle]
          /\ ret' = Return(c, "runtime_failed")
          /\ instances' = AfterRuntimeError(c)
          /\ UNCHANGED containers
    /\ UNCHANGED <<archive, nextId, ncalls, clock, arch, sweep, naming>>

\* instance.UpdateStatus(running | stopped)
LifecycleUpdate(s) ==
    /\ slots[s].pc = "l_status"
    /\ LET c == slots[s] IN
       \/ /\ instances[c.id].status # "none"
          /\ instances' = UpdateStatus(c.id, TargetStatus(c.op))
          /\ ret' = Return(c, "ok")
       \/ /\ ret' = Return(c, "status_failed")
          /\ UNCHANGED instances
    /\ slots' = [slots EXCEPT ![s] = Idle]
    /\ UNCHANGED <<archive, containers, nextId, ncalls, clock, arch, sweep, naming>>

StartInstance(s, u, i) == LifecycleBegin(s, "start", u, i)
StopInstance(s, u, i) == LifecycleBegin(s, "stop", u, i)
RestartInstance(s, u, i) == LifecycleBegin(s, "restart", u, i)

\* ---------------------------------------------------------- DeleteInstance

\* models.ArchiveInstance: INSERT INTO instances_archive
ArchiveInsert(rec) == Append(archive, rec)

\* After the archive write: the container is stopped and removed when the
\* instance read has one, then the row is deleted.
AfterArchive(inst) == IF HasContainer(inst) THEN "d_stop" ELSE "d_delete"

\* Mutant: the archive error is logged like the Docker errors below it, and
\* the call goes on.
AfterArchiveErrorIgnored(c) == [c EXCEPT !.pc = AfterArchive(c.inst)]

\* What DeleteInstance does when ArchiveInstance fails:
\* return fmt.Errorf("failed to archive instance")
AfterArchiveError(c) == Idle

\* Mutant: DeleteInstance refuses a row that is neither running nor stopped.
DeleteAllowedByStatus(row, u) ==
    OwnedBy(row, u) /\ row.status \in {InstanceStatusRunning, InstanceStatusStopped}

\* The check DeleteInstance makes of the row it read: it exists and
\* instance.UserID == userID; the status is not looked at.
DeleteAllowed(row, u) == OwnedBy(row, u)

\* FindInstanceByID (which may fail) and the ownership check; the call keeps
\* the row it read.
DeleteBegin(s, u, i) ==
    /\ slots[s] = Idle
    /\ NewCall
    /\ LET c == [Idle EXCEPT !.op = "delete", !.user = u, !.id = i]
           row == FindInstanceByID(i) IN
       \/ /\ ret' = Return(c, "db_error")
          /\ UNCHANGED slots
       \/ IF DeleteAllowed(row, u)
          THEN /\ slots' = [slots EXCEPT ![s] = [c EXCEPT !.pc = "d_archive", !.inst = row]]
               /\ ret' = NoRet
          ELSE /\ ret' = Return(c, "not_found")
               /\ UNCHANGED slots
    /\ UNCHANGED <<instances, archive, containers, nextId, clock, arch, sweep, naming>>

\* models.ArchiveInstance of the row read; its error ends the call.
DeleteArchive(s) ==
    /\ slots[s].pc = "d_archive"
    /\ LET c == slots[s] IN
       \/ /\ ArchiveInsertAllowed(c.id)
          /\ archive' = ArchiveInsert(ArchivedInstance(c.inst, c.id, c.user))
          /\ slots' = [slots EXCEPT ![s].pc = AfterArchive(c.inst)]
          /\ ret' = NoRet
       \/ /\ slots' = [slots EXCEPT ![s] = AfterArchiveError(c)]
          /\ ret' = Return(c, "archive_failed")
          /\ UNCHANGED archive
    /\ UNCHANGED <<instances, containers, nextId, ncalls, clock, arch, sweep, naming>>

\* Mutant: a Docker error during the teardown ends the call.
AfterTeardownErrorAbort(c, next) == Idle

\* What DeleteInstance does when StopContainer or RemoveContainer fails: the
\* error is printed and the call goes on with its next statement.
AfterTeardownError(c, next) == [c EXCEPT !.pc = next]

\* dockerClient.StopContainer; a failure is logged and the call goes on.
DeleteStop(s) ==
    /\ slots[s].pc = "d_stop"
    /\ LET c == [slots[s] EXCEPT !.rt = Append(@, "stop")]
           cid == slots[s].inst.container_id IN
       \/ /\ Exists(cid)
          /\ containers' = [containers EXCEPT ![cid].state = "exited"]
          /\ slots' = [slots EXCEPT ![s] = [c EXCEPT !.pc = "d_remove"]]
       \/ /\ UNCHANGED containers
          /\ slots' = [slots EXCEPT ![s] = AfterTeardownError(c, "d_remove")]
    /\ ret' = NoRet
    /\ UNCHANGED <<instances, archive, nextId, ncalls, clock, arch, sweep, naming>>

\* dockerClient.RemoveContainer; a failure is logged and the call goes on.
DeleteRemove(s) ==
    /\ slots[s].pc = "d_remove"
    /\ LET c == [slots[s] EXCEPT !.rt = Append(@, "remove"),
                                 !.removeOptions = RemoveContainerOptions]
           cid == slots[s].inst.container_id IN
       \/ /\ Exists(cid)
          /\ containers' = [containers EXCEPT ![cid] = NoContainer]
          /\ slots' = [slots EXCEPT ![s] = [c EXCEPT !.pc = "d_delete"]]
       \/ /\ UNCHANGED containers
          /\ slots' = [slots EXCEPT ![s] = AfterTeardownError(c, "d_delete")]
    /\ ret' = NoRet
    /\ UNCHANGED <<instances, archive, nextId, ncalls, clock, arch, sweep, naming>>

\* instance.Delete: DELETE FROM instances WHERE id; no row deleted is an error.
DeleteRow(s) ==
    /\ slots[s].pc = "d_delete"
    /\ LET c == slots[s] IN
       \/ /\ instances[c.id].status # "none"
          /\ instances' = DeleteRowOf(c.id)
          /\ ret' = Return(c, "ok")
       \/ /\ ret' = Return(c, "delete_failed")
          /\ UNCHANGED instances
    /\ slots' = [slots EXCEPT ![s] = Idle]
    /\ UNCHANGED <<archive, containers, nextId, ncalls, clock, arch, sweep, naming>>

\* ------------------------------------------------------------------- crash

\* The process serving a call dies between two of its statements.
Crash(s) ==
    /\ slots[s] # Idle
    /\ slots' = [slots EXCEPT ![s] = Idle]
    /\ ret' = Return(slots[s], "crashed")
    /\ UNCHANGED <<instances, archive, containers, nextId, ncalls, clock, arch, sweep, naming>>

\* ------------------------------------------------- models.ArchiveInstance
\* The archive functions of the models package on their own, called with any
\* argument, and the clock that time.Now() reads.

\* The DataRetentionDays the callers of ArchiveInstance pass
RetentionDaysInputs == {-1, 0, 1, 30}

\* time.Time.AddDate(0, 0, days)
AddDate(t, days) == t + days * TicksPerDay

\* retentionDays := params.DataRetentionDays; if retentionDays == 0 { = 30 }
DefaultRetention(days) == IF days = 0 THEN 30 ELSE days

\* The *models.Instance the callers pass for id i: a running row of user 1
ArchivableRow(i) ==
    [NewRow(1, <<"c", "c", "c">>) EXCEPT !.status = InstanceStatusRunning,
                                       !.container_id = i]

\* The clock advances.
Tick ==
    /\ clock < MaxClock
    /\ clock' = clock + 1
    /\ UNCHANGED <<instances, archive, containers, slots, nextId, ncalls, ret, arch, sweep, naming>>

\* ArchiveInstance up to dataRetainedUntil := time.Now().UTC().AddDate(0, 0,
\* retentionDays): the first reading of the clock.
ArchiveBegin(i, days) ==
    /\ arch = NoArchiveCall
    /\ arch' = [pc |-> "a_build", id |-> i, by |-> ArchivableRow(i).user_id,
                retentionDays |-> DefaultRetention(days),
                dataRetainedUntil |-> AddDate(clock, DefaultRetention(days))]
    /\ UNCHANGED <<instances, archive, containers, slots, nextId, ncalls, ret, clock, sweep, naming>>

\* ArchiveInstance from archived := &ArchivedInstance{...}, where DeletedAt
\* is a second time.Now().UTC(), to the INSERT, which the primary key or the
\* database may refuse.
ArchiveWrite ==
    /\ arch.pc = "a_build"
    /\ \/ /\ ArchiveInsertAllowed(arch.id)
          /\ archive' = ArchiveInsert(
                 ArchivedInstance(ArchivableRow(arch.id), arch.id, arch.by)
                   @@ [deleted_at |-> clock,
                       data_retained_until |-> arch.dataRetainedUntil])
       \/ UNCHANGED archive
    /\ arch' = NoArchiveCall
    /\ UNCHANGED <<instances, containers, slots, nextId, ncalls, ret, clock, sweep, naming>>

\* models.UpdateArchivedDataAvailability: UPDATE instances_archive
\* SET data_available = $1 WHERE id = $2
SetDataAvailable(id, available) ==
    [k \in 1..Len(archive) |->
        IF archive[k].id = id
        THEN [archive[k] EXCEPT !.data_available = available]
        ELSE archive[k]]

\* A call of models.UpdateArchivedDataAvailability with any arguments
UpdateArchivedDataAvailability(id, available) ==
    /\ archive' = SetDataAvailable(id, available)
    /\ UNCHANGED <<instances, containers, slots, nextId, ncalls, ret, clock, arch, sweep, naming>>

\* Mutant: the query compares with <=.
FindExpiredInclusive ==
    {k \in 1..Len(archive) : /\ archive[k].data_retained_until <= clock
                             /\ archive[k].data_available}

\* Mutant: the query does not look at data_available.
FindExpiredIgnoringFlag ==
    {k \in 1..Len(archive) : archive[k].data_retained_until < clock}

\* models.FindExpiredArchivedInstances:
\* WHERE data_retained_until < NOW() AND data_available = true
FindExpiredArchivedInstances ==
    {k \in 1..Len(archive) : /\ archive[k].data_retained_until < clock
                             /\ archive[k].data_available}

\* ------------------------------------------------------------ SweepExpired
\* The purge step, which the repository leaves to a background job it does
\* not contain: FindExpiredArchivedInstances, then for each record returned
\* the data directory is deleted and UpdateArchivedDataAvailability(id,
\* false) is called.

\* The query of the sweep.
SweepFind ==
    /\ sweep.pc = "idle"
    /\ LET ids == {archive[k].id : k \in FindExpiredArchivedInstances} IN
       sweep' = [sweep EXCEPT !.pc = "flip", !.found = ids, !.pending = ids,
                              !.at = clock, !.len = Len(archive)]
    /\ UNCHANGED <<instances, archive, containers, slots, nextId, ncalls, ret, clock, arch, naming>>

\* One record is purged and its flag flipped; when that fails the sweep ends.
SweepFlip(i) ==
    /\ sweep.pc = "flip"
    /\ i \in sweep.pending
    /\ \/ /\ archive' = SetDataAvailable(i, FALSE)
          /\ sweep' = [sweep EXCEPT !.pending = @ \ {i}]
       \/ /\ sweep' = [sweep EXCEPT !.pc = "idle", !.found = {}, !.pending = {}]
          /\ UNCHANGED archive
    /\ UNCHANGED <<instances, containers, slots, nextId, ncalls, ret, clock, arch, naming>>

\* The sweep returns the records it found.
SweepDone ==
    /\ sweep.pc = "flip"
    /\ sweep.pending = {}
    /\ sweep' = [sweep EXCEPT !.pc = "idle", !.lastAt = sweep.at, !.lastLen = sweep.len]
    /\ UNCHANGED <<instances, archive, containers, slots, nextId, ncalls, ret, clock, arch, naming>>

\* ------------------------------------------------- naming and routing
\* CreateInstance followed through the statements that touch neither the
\* database nor Docker: validateInstanceName, generateSlug,
\* generateSubdomain and generateContainerName, buildTraefikLabels (called
\* by CreatePocketBaseContainer), and the URL of the response.

\* config.Env (ENV)
Envs == {"development", "production"}

\* config.TraefikNetwork
TraefikNetwork == "pocketploy-network"

\* The characters of the names requested: a lower and an upper case letter,
\* a digit, the space, the tab, the underscore, the hyphen, and a character
\* outside the name pattern.
NameAlphabet == {"a", "B", "0", " ", "\t", "_", "-", "!"}

\* A name of n letters
LongName(n) == [k \in 1..n |-> "a"]

\* req.Name: every name of 2 to MaxNameLen characters of the alphabet, and
\* names at and past the length limit
NameInputs ==
    UNION {[1..n -> NameAlphabet] : n \in 2..MaxNameLen}
        \cup {LongName(100), LongName(101)}

\* req.AdminEmail and req.AdminPassword: the bootstrap credentials
AdminEmail == "admin@ex.io"
AdminPassword == "bootstrap-password"

\* The empty map[string]string
NoLabels == [k \in {} |-> ""]

\* No request: the state of SpecNaming's variable in the other specifications.
NoRequest == [pc |-> "idle", user |-> 0, name |-> <<>>, env |-> "development",
              adminEmail |-> "", adminPassword |-> "",
              slug |-> <<>>, subdomain |-> <<>>, containerName |-> <<>>,
              files |-> {}, labels |-> NoLabels, url |-> <<>>]

\* A request as CreateInstance receives it, under a configuration.
Request(u, name, env) ==
    [NoRequest EXCEPT !.pc = "validate", !.user = u, !.name = name, !.env = env,
                      !.adminEmail = AdminEmail, !.adminPassword = AdminPassword]

\* The suffixes of the router and middleware names: "%s-secure", "%s-redirect"
SecureSuffix == <<"-", "s", "e", "c", "u", "r", "e">>
RedirectSuffix == <<"-", "r", "e", "d", "i", "r", "e", "c", "t">>

\* Mutant: the production labels lack the redirect middleware.
buildTraefikLabelsWithoutRedirect(cfg, env) ==
    LET routerName == cfg.ContainerName
        labels ==
            (<<"traefik.enable">> :> "true")
            @@ (<<"traefik.http.routers", routerName, "rule">>
                    :> <<"Host", cfg.Subdomain>>)
            @@ (<<"traefik.http.routers", routerName, "entrypoints">> :> "web")
            @@ (<<"traefik.http.services", routerName, "loadbalancer.server.port">>
                    :> "8090")
            @@ (<<"traefik.docker.network">> :> TraefikNetwork)
        production ==
            (<<"traefik.http.routers", routerName \o SecureSuffix, "rule">>
                    :> <<"Host", cfg.Subdomain>>)
            @@ (<<"traefik.http.routers", routerName \o SecureSuffix, "entrypoints">>
                    :> "websecure")
            @@ (<<"traefik.http.routers", routerName \o SecureSuffix, "tls">> :> "true")
    IN IF env = "production" THEN production @@ labels ELSE labels

\* Client.buildTraefikLabels: the map returned, label key -> label value.  A
\* key is the tuple of the constant parts of its format string and the name
\* formatted into it; Host(`%s`) is the pair of "Host" and the subdomain.
buildTraefikLabels(cfg, env) ==
    LET routerName == cfg.ContainerName
        labels ==
            (<<"traefik.enable">> :> "true")
            @@ (<<"traefik.http.routers", routerName, "rule">>
                    :> <<"Host", cfg.Subdomain>>)
            @@ (<<"traefik.http.routers", routerName, "entrypoints">> :> "web")
            @@ (<<"traefik.http.services", routerName, "loadbalancer.server.port">>
                    :> "8090")
            @@ (<<"traefik.docker.network">> :> TraefikNetwork)
        production ==
            (<<"traefik.http.routers", routerName, "middlewares">>
                    :> routerName \o RedirectSuffix)
            @@ (<<"traefik.http.middlewares", routerName \o RedirectSuffix,
                  "redirectscheme.scheme">> :> "https")
            @@ (<<"traefik.http.routers", routerName \o SecureSuffix, "rule">>
                    :> <<"Host", cfg.Subdomain>>)
            @@ (<<"traefik.http.routers", routerName \o SecureSuffix, "entrypoints">>
                    :> "websecure")
            @@ (<<"traefik.http.routers", routerName \o SecureSuffix, "tls">> :> "true")
    IN IF env = "production" THEN production @@ labels ELSE labels

\* entrypointScript := fmt.Sprintf(..., cfg.AdminEmail, cfg.AdminPassword):
\* the text, cut at the two %s
entrypointScript(email, password) ==
    <<"#!/bin/sh", "set -e",
      "/usr/local/bin/pocketbase superuser upsert", email, password,
      "|| true",
      "exec /usr/local/bin/pocketbase serve --http=0.0.0.0:8090">>

\* protocol := "http"; if s.config.Env == "production" { protocol = "https" }
Protocol(env) == IF env = "production" THEN "https" ELSE "http"

\* url := fmt.Sprintf("%s://%s", protocol, subdomain)
InstanceURL(env, subdomain) == <<Protocol(env), "://", subdomain>>

\* if err := s.validateInstanceName(req.Name); err != nil { return nil, err }
RequestValidate ==
    /\ naming.pc = "validate"
    /\ naming' = [naming EXCEPT !.pc = IF validateInstanceName(naming.name)
                                       THEN "derive" ELSE "rejected"]
    /\ UNCHANGED <<instances, archive, containers, slots, nextId, ncalls, ret, clock,
                   arch, sweep>>

\* slug, subdomain and containerName of CreateInstance
RequestDerive ==
    /\ naming.pc = "derive"
    /\ LET slug == generateSlug(naming.name) IN
       naming' = [naming EXCEPT
                     !.pc = "entrypoint",
                     !.slug = slug,
                     !.subdomain = generateSubdomain(Username(naming.user), slug),
                     !.containerName = generateContainerName(Username(naming.user), slug)]
    /\ UNCHANGED <<instances, archive, containers, slots, nextId, ncalls, ret, clock,
                   arch, sweep>>

\* CreatePocketBaseContainer: os.WriteFile(filepath.Join(cfg.StoragePath,
\* "entrypoint.sh"), entrypointScript, 0755).  StoragePath is the data_path
\* of the row, the directory mounted at /pb_data.
RequestEntrypoint ==
    /\ naming.pc = "entrypoint"
    /\ naming' = [naming EXCEPT
                     !.pc = "labels",
                     !.files = @ \cup
                         {[dir |-> generateStoragePath(Username(naming.user), naming.slug),
                           file |-> "entrypoint.sh",
                           content |-> entrypointScript(naming.adminEmail,
                                                        naming.adminPassword)]}]
    /\ UNCHANGED <<instances, archive, containers, slots, nextId, ncalls, ret, clock,
                   arch, sweep>>

\* Labels: c.buildTraefikLabels(cfg) in CreatePocketBaseContainer
RequestLabels ==
    /\ naming.pc = "labels"
    /\ naming' = [naming EXCEPT
                     !.pc = "url",
                     !.labels = buildTraefikLabels(
                                    [ContainerName |-> naming.containerName,
                                     Subdomain |-> naming.subdomain], naming.env)]
    /\ UNCHANGED <<instances, archive, containers, slots, nextId, ncalls, ret, clock,
                   arch, sweep>>

\* The URL of the CreateInstanceResponse
RequestURL ==
    /\ naming.pc = "url"
    /\ naming' = [naming EXCEPT !.pc = "done",
                                !.url = InstanceURL(naming.env, naming.subdomain)]
    /\ UNCHANGED <<instances, archive, containers, slots, nextId, ncalls, ret, clock,
                   arch, sweep>>

\* ----------------------------------------------------------- specification

Init ==
    /\ instances = [i \in Ids |-> NoRow]
    /\ archive = <<>>
    /\ containers = [i \in Ids |-> NoContainer]
    /\ slots = [s \in Slots |-> Idle]
    /\ nextId = 1
    /\ ncalls = 0
    /\ ret = NoRet
    /\ clock = 0
    /\ arch = NoArchiveCall
    /\ sweep = NoSweep
    /\ naming = NoRequest

Next ==
    \/ \E s \in Slots, req \in CreateInputs : CreateBegin(s, req[1], req[2])
    \/ \E s \in Slots : CreateFind(s)
    \/ \E s \in Slots : CreateInsert(s)
    \/ \E s \in Slots : CreateContainer(s)
    \/ \E s \in Slots : CreateUpdateInfo(s)
    \/ \E s \in Slots : CreateInfoFailed(s)
    \/ \E s \in Slots : CreateUpdateStatus(s)
    \/ \E u \in Users, i \in KnownIds : GetInstance(u, i)
    \/ \E u \in Users, i \in KnownIds : GetInstanceLogs(u, i)
    \/ \E u \in Users, i \in KnownIds : GetInstanceStats(u, i)
    \/ \E s \in Slots, u \in Users, i \in KnownIds : StartInstance(s, u, i)
    \/ \E s \in Slots, u \in Users, i \in KnownIds : StopInstance(s, u, i)
    \/ \E s \in Slots, u \in Users, i \in KnownIds : RestartInstance(s, u, i)
    \/ \E s \in Slots : LifecycleRuntime(s)
    \/ \E s \in Slots : LifecycleUpdate(s)
    \/ \E s \in Slots, u \in Users, i \in KnownIds : DeleteBegin(s, u, i)
    \/ \E s \in Slots : DeleteArchive(s)
    \/ \E s \in Slots : DeleteStop(s)
    \/ \E s \in Slots : DeleteRemove(s)
    \/ \E s \in Slots : DeleteRow(s)
    \/ \E s \in Slots : Crash(s)

Spec == Init /\ [][Next]_vars

NextArchive ==
    \/ Tick
    \/ \E i \in Ids, days \in RetentionDaysInputs : ArchiveBegin(i, days)
    \/ ArchiveWrite
    \/ \E i \in Ids, available \in BOOLEAN : UpdateArchivedDataAvailability(i, available)

SpecArchive == Init /\ [][NextArchive]_vars

NextSweep ==
    \/ Tick
    \/ \E i \in Ids, days \in RetentionDaysInputs : ArchiveBegin(i, days)
    \/ ArchiveWrite
    \/ SweepFind
    \/ \E i \in Ids : SweepFlip(i)
    \/ SweepDone

SpecSweep == Init /\ [][NextSweep]_vars

\* The step of the call in slot s in which every database statement and
\* every Docker call returns what it returns when the database and the daemon
\* work: an error only where the state calls for one (no row has the id, the
\* constraint refuses the insert, the container does not exist).
Succeeds(s) ==
    LET c == slots[s]
        cid == c.inst.container_id
        live == c.id \in Ids /\ instances[c.id].status # "none"
    IN
    CASE c.pc = "idle" -> ret'.result # "db_error"
      [] c.pc = "c_find" ->
            FindInstanceBySubdomain(NewRow(c.user, c.name).subdomain) # {}
                => ret'.result = "conflict"
      [] c.pc = "c_insert" ->
            ret'.result = "insert_failed" => ~InsertAllowed(NewRow(c.user, c.name))
      [] c.pc = "c_container" -> ret'.result # "container_failed"
      [] c.pc = "c_info" ->
            IF live THEN slots'[s].pc = "c_status" ELSE containers'[c.id] = NoContainer
      [] c.pc = "c_info_failed" ->
            live => instances'[c.id].status = InstanceStatusFailed
      [] c.pc \in {"c_status", "l_status", "d_delete"} -> live => ret'.result = "ok"
      [] c.pc = "l_runtime" -> Exists(cid) => ret' = NoRet
      [] c.pc = "d_archive" -> ArchiveInsertAllowed(c.id) => ret' = NoRet
      [] c.pc = "d_stop" -> Exists(cid) => containers'[cid].state = "exited"
      [] c.pc = "d_remove" -> Exists(cid) => containers'[cid] = NoContainer
      [] OTHER -> TRUE

\* The calls of Create, Start, Stop, Restart and Delete, interleaved, with
\* the database and the Docker daemon working and no process dying.
NextHealthy ==
    \/ \E s \in Slots, req \in CreateInputs :
          CreateBegin(s, req[1], req[2]) /\ Succeeds(s)
    \/ \E s \in Slots : CreateFind(s) /\ Succeeds(s)
    \/ \E s \in Slots : CreateInsert(s) /\ Succeeds(s)
    \/ \E s \in Slots : CreateContainer(s) /\ Succeeds(s)
    \/ \E s \in Slots : CreateUpdateInfo(s) /\ Succeeds(s)
    \/ \E s \in Slots : CreateInfoFailed(s) /\ Succeeds(s)
    \/ \E s \in Slots : CreateUpdateStatus(s) /\ Succeeds(s)
    \/ \E s \in Slots, u \in Users, i \in KnownIds : StartInstance(s, u, i) /\ Succeeds(s)
    \/ \E s \in Slots, u \in Users, i \in KnownIds : StopInstance(s, u, i) /\ Succeeds(s)
    \/ \E s \in Slots, u \in Users, i \in KnownIds : RestartInstance(s, u, i) /\ Succeeds(s)
    \/ \E s \in Slots : LifecycleRuntime(s) /\ Succeeds(s)
    \/ \E s \in Slots : LifecycleUpdate(s) /\ Succeeds(s)
    \/ \E s \in Slots, u \in Users, i \in KnownIds : DeleteBegin(s, u, i) /\ Succeeds(s)
    \/ \E s \in Slots : DeleteArchive(s) /\ Succeeds(s)
    \/ \E s \in Slots : DeleteStop(s) /\ Succeeds(s)
    \/ \E s \in Slots : DeleteRemove(s) /\ Succeeds(s)
    \/ \E s \in Slots : DeleteRow(s) /\ Succeeds(s)

SpecHealthy == Init /\ [][NextHealthy]_vars

\* Any request of a user under either configuration.
InitNaming ==
    /\ instances = [i \in Ids |-> NoRow]
    /\ archive = <<>>
    /\ containers = [i \in Ids |-> NoContainer]
    /\ slots = [s \in Slots |-> Idle]
    /\ nextId = 1
    /\ ncalls = 0
    /\ ret = NoRet
    /\ clock = 0
    /\ arch = NoArchiveCall
    /\ sweep = NoSweep
    /\ naming \in {Request(u, name, env) : u \in Users, name \in NameInputs, env \in Envs}

NextNaming ==
    \/ RequestValidate
    \/ RequestDerive
    \/ RequestEntrypoint
    \/ RequestLabels
    \/ RequestURL

SpecNaming == InitNaming /\ [][NextNaming]_vars

\* ------------------------------------------------------------------ claims

\* A row of the live table
Live(i) == instances[i].status # "none"

\* The step just taken ended a call of operation op with this result
Returned(op, result) == ret.op = op /\ ret.result = result

\* C1: at every reachable state no instance id is both in the live table and
\* in the archive, and no id that left the live table lacks an archive
\* record: the archive write and the row removal are one atomic unit.
C1_ArchiveAndRemovalAtomic ==
    \A i \in Ids :
        /\ ~(Live(i) /\ ArchivedOf(i) # {})
        /\ (i \in KnownIds /\ ~Live(i)) => ArchivedOf(i) # {}

\* C2: DeleteInstance calls Docker's stop or remove, and deletes the live
\* row, only when the archive holds the instance; and the step in which it
\* returns the archive error has made no Docker call and changes neither the
\* live table nor the containers.
C2_ArchiveBeforeTeardown ==
    [][ /\ \A s \in Slots :
              (slots[s].op = "delete" /\ slots'[s].op = "delete"
                 /\ Len(slots'[s].rt) > Len(slots[s].rt))
              => ArchivedOf(slots[s].id) # {}
        /\ \A i \in Ids : (Live(i) /\ ~Live(i)') => ArchivedOf(i) # {}
        /\ (ret'.op = "delete" /\ ret'.result = "archive_failed")
              => /\ ret'.rt = <<>>
                 /\ instances' = instances
                 /\ containers' = containers
      ]_vars

\* C2 witness: a Delete returned the archive error while the instance, never
\* archived, is live and its container runs.
C2_Witness ==
    /\ Returned("delete", "archive_failed")
    /\ ArchivedOf(ret.id) = {}
    /\ Live(ret.id)
    /\ containers[ret.id].state = "running"

\* C3: the archive never holds more than one ArchivedInstance for an id.
C3_AtMostOneArchived == \A i \in Ids : Cardinality(ArchivedOf(i)) <= 1

\* C3 witness: a Delete of an instance that is archived but still live (an
\* earlier Delete stopped between the two) was refused by the archive.
C3_Witness ==
    /\ Returned("delete", "archive_failed")
    /\ ArchivedOf(ret.id) # {}
    /\ Live(ret.id)
    /\ \A s \in Slots : slots[s] = Idle

\* C4: once a Delete by the owner has returned success, GetInstance and
\* ListUserInstances of that owner do not return the instance, and the
\* archive holds a row of the same id with data_available = true; and a row
\* that left the live table never comes back, nor does an archived row go or
\* lose data_available.
C4_DeletedIsArchived ==
    /\ [](Returned("delete", "ok") =>
            /\ ~OwnedBy(FindInstanceByID(ret.id), ret.user)
            /\ ret.id \notin ListUserInstances(ret.user)
            /\ \E k \in ArchivedOf(ret.id) : archive[k].data_available)
    /\ [][ /\ \A i \in Ids : (i \in KnownIds /\ ~Live(i)) => ~Live(i)'
           /\ \A k \in 1..Len(archive) :
                 /\ k <= Len(archive')
                 /\ archive'[k].id = archive[k].id
                 /\ archive[k].data_available => archive'[k].data_available
         ]_vars

\* C4 witness: a Delete that stopped and removed the container returned
\* success.
C4_Witness == Returned("delete", "ok") /\ ret.rt = <<"stop", "remove">>

\* C5: the archived original_status is the status the live row held when it
\* left the live table.
C5_OriginalStatusIsLast ==
    [][ \A i \in Ids :
          (Live(i) /\ ~Live(i)') =>
             \E k \in ArchivedOf(i)' : archive'[k].original_status = instances[i].status
      ]_vars

\* C6: a row enters the live table as creating with a NULL container id,
\* before any Docker call was made for it, and no step sets the status of a
\* row that is not creating to creating.
C6_EntersAsCreating ==
    [][ \A i \in Ids :
          /\ (~Live(i) /\ Live(i)') =>
                /\ instances'[i].status = InstanceStatusCreating
                /\ instances'[i].container_id = NULL
                /\ containers'[i] = NoContainer
                /\ \E s \in Slots : slots'[s].op = "create" /\ slots'[s].id = i
                                    /\ slots'[s].rt = <<>>
          /\ (Live(i) /\ instances[i].status # InstanceStatusCreating)
                => instances'[i].status # InstanceStatusCreating
      ]_vars

\* C6 witness: a row is creating, its container id still NULL, while its
\* CreateInstance has created and started the container.
C6_Witness ==
    \E s \in Slots :
        /\ slots[s].op = "create" /\ slots[s].pc = "c_info"
        /\ instances[slots[s].id].status = InstanceStatusCreating
        /\ instances[slots[s].id].container_id = NULL
        /\ containers[slots[s].id].state = "running"

\* A change of status the state machine allows
AllowedTransition(from, to) ==
    \/ from = InstanceStatusCreating /\ to = InstanceStatusRunning
    \/ from = InstanceStatusRunning /\ to = InstanceStatusStopped
    \/ from = InstanceStatusStopped /\ to = InstanceStatusRunning
    \/ from # InstanceStatusFailed /\ to = InstanceStatusFailed

\* C7: every change of a live row's status is creating -> running,
\* running -> stopped, stopped -> running or non-failed -> failed.
C7_OnlyAllowedTransitions ==
    [][ \A i \in Ids :
          (Live(i) /\ Live(i)' /\ instances'[i].status # instances[i].status)
             => AllowedTransition(instances[i].status, instances'[i].status)
      ]_vars

\* C8: a row that is failed stays failed for as long as it is live.
C8_FailedIsTerminal ==
    [][ \A i \in Ids :
          (instances[i].status = InstanceStatusFailed /\ Live(i)')
             => instances'[i].status = InstanceStatusFailed
      ]_vars

\* C8 witness: Start, Stop or Restart was called by the owner on a failed row.
C8_Witness ==
    /\ ret.op \in {"start", "stop", "restart"}
    /\ ret.result = "no_container"
    /\ instances[ret.id].status = InstanceStatusFailed

Admitted(s) == slots[s] = Idle /\ slots'[s].op = "create"

\* C10 as claimed: a Create gets past the quota check only when the owner has
\* fewer than MaxInstancesPerUser rows, rows of every status counted.
C10_QuotaCountsEveryRow ==
    [][ \A s \in Slots :
          Admitted(s) =>
             Cardinality(FindInstancesByUserID(slots'[s].user)) < MaxInstancesPerUser
      ]_vars

\* C10 amended: a Create gets past the quota check only when the owner has
\* fewer than MaxInstancesPerUser rows that are not failed; it is refused
\* with QuotaExceeded only when the owner has that many; and a Create refused
\* there has inserted no row and made no Docker call.
C10_QuotaCountsNonFailed ==
    [][ /\ \A s \in Slots :
              Admitted(s) => CountUserInstances(slots'[s].user) < MaxInstancesPerUser
        /\ (ret'.op = "create" /\ ret'.result = "quota_exceeded")
              => /\ CountUserInstances(ret'.user) >= MaxInstancesPerUser
                 /\ ret'.rt = <<>>
                 /\ instances' = instances
                 /\ containers' = containers
                 /\ nextId' = nextId
      ]_vars

\* C10 witness: a Create was refused with QuotaExceeded for an owner who has
\* a failed row besides the rows that count.
C10_Witness ==
    /\ Returned("create", "quota_exceeded")
    /\ \E i \in Ids : instances[i].user_id = ret.user
                      /\ instances[i].status = InstanceStatusFailed

\* C11 as claimed: no owner ever has more rows that count toward the quota
\* than MaxInstancesPerUser.
C11_QuotaNeverExceeded ==
    \A u \in Users : CountUserInstances(u) <= MaxInstancesPerUser

\* The Docker calls named op among those a call has made
CallsOf(rt, op) == {k \in 1..Len(rt) : rt[k] = op}

\* C12 as claimed: when CreateInstance returns because the pull or the
\* ContainerCreate failed, the row it inserted, if still live, is failed
\* with a NULL container id, and ContainerCreate was called at most once.
C12_RuntimeFailureEndsFailed ==
    (/\ Returned("create", "container_failed")
     /\ ret.rt \in {<<"pull">>, <<"pull", "create">>})
    => /\ Cardinality(CallsOf(ret.rt, "create")) <= 1
       /\ Live(ret.id) => /\ instances[ret.id].status = InstanceStatusFailed
                          /\ instances[ret.id].container_id = NULL

\* C13 as claimed: when CreateInstance returns because ContainerStart
\* failed, the removal of the container was attempted exactly once, the
\* error returned is that of the container creation whether or not the
\* removal succeeded, and the row, if still live, is failed.
C13_StartFailureEndsFailed ==
    (/\ Returned("create", "container_failed")
     /\ CallsOf(ret.rt, "start") # {})
    => /\ Cardinality(CallsOf(ret.rt, "remove")) = 1
       /\ Live(ret.id) => instances[ret.id].status = InstanceStatusFailed

\* The step changes no row's status or container binding
SameStatusAndBinding ==
    \A i \in Ids : /\ instances'[i].status = instances[i].status
                   /\ instances'[i].container_id = instances[i].container_id
                   /\ instances'[i].container_name = instances[i].container_name

\* C14: a StartInstance on a running row and a StopInstance on a stopped
\* row never get past their checks: the call returns in the step that read
\* the row, has made no Docker call, and that step changes no container and
\* no row's status or container binding.
C14_AlreadyInStateRejected ==
    [][ /\ \A s \in Slots :
              (slots[s] = Idle /\ slots'[s].op = "start")
              => instances[slots'[s].id].status # InstanceStatusRunning
        /\ \A s \in Slots :
              (slots[s] = Idle /\ slots'[s].op = "stop")
              => instances[slots'[s].id].status # InstanceStatusStopped
        /\ (/\ ncalls' # ncalls
            /\ \/ ret'.op = "start" /\ instances[ret'.id].status = InstanceStatusRunning
               \/ ret'.op = "stop" /\ instances[ret'.id].status = InstanceStatusStopped)
           => /\ ret'.result \in {"invalid_state", "no_container", "not_found", "db_error"}
              /\ ret'.rt = <<>>
              /\ containers' = containers
              /\ archive' = archive
              /\ SameStatusAndBinding
      ]_vars

\* C14 witness: a Stop of a stopped instance was rejected for its status.
C14_Witness ==
    /\ Returned("stop", "invalid_state")
    /\ instances[ret.id].status = InstanceStatusStopped
    /\ instances[ret.id].container_id # NULL

\* C15: the step in which Start, Stop or Restart returns the failure of its
\* Docker call leaves the instances table and the archive as they were, and
\* so does, for status and binding, the step in which the call read the row.
C15_RuntimeFailureLeavesRow ==
    [][ /\ (ret'.op \in {"start", "stop", "restart"} /\ ret'.result = "runtime_failed")
           => /\ ret'.rt = <<ret'.op>>
              /\ instances' = instances
              /\ archive' = archive
        /\ \A s \in Slots :
              (slots[s] = Idle /\ slots'[s].op \in {"start", "stop", "restart"})
              => SameStatusAndBinding /\ containers' = containers
      ]_vars

\* C15 witness: the Docker call of a Stop failed on a running instance,
\* which is still running with its container bound.
C15_Witness ==
    /\ Returned("stop", "runtime_failed")
    /\ instances[ret.id].status = InstanceStatusRunning
    /\ instances[ret.id].container_id = ret.id
    /\ containers[ret.id].state = "running"

\* Row i is live and belongs to another user than u
ForeignRow(i, u) == instances[i].status # "none" /\ instances[i].user_id # u

\* The operations on one instance that check the owner
OwnerOps == {"get", "start", "stop", "restart", "delete", "logs", "stats"}

\* C16: a Get, Start, Stop, Restart, Delete, Logs or Stats on a row of
\* another user returns in the step that read the row, as not found (or the
\* error of the read), having made no Docker call, and that step changes
\* neither the instances table (last_accessed_at included), nor the archive,
\* nor a container.
C16_NotOwnerRejected ==
    [][ ncalls' # ncalls =>
          /\ \A s \in Slots :
                (slots[s] = Idle /\ slots'[s].op \in OwnerOps)
                => ~ForeignRow(slots'[s].id, slots'[s].user)
          /\ (ret'.op \in OwnerOps /\ ForeignRow(ret'.id, ret'.user))
             => /\ ret'.result \in {"not_found", "db_error"}
                /\ ret'.rt = <<>>
                /\ instances' = instances
                /\ archive' = archive
                /\ containers' = containers
      ]_vars

\* C16 witness: Stats on another user's running instance was refused as not
\* found, the row never having been accessed.
C16_Witness ==
    /\ Returned("stats", "not_found")
    /\ ForeignRow(ret.id, ret.user)
    /\ instances[ret.id].status = InstanceStatusRunning
    /\ instances[ret.id].last_accessed_at = NULL

\* C17: Logs and Stats by the owner on a row with a NULL container id return
\* the no-container error (or the error of the read) having made no Docker
\* call; and every step of Logs or Stats leaves the archive, the containers
\* and the calls in flight as they were, and changes in the instances table
\* at most last_accessed_at of the row asked for.
C17_LogsAndStatsOnlyTouch ==
    [][ (ncalls' # ncalls /\ ret'.op \in {"logs", "stats"}) =>
          /\ archive' = archive
          /\ containers' = containers
          /\ slots' = slots
          /\ nextId' = nextId
          /\ \A i \in Ids :
                /\ i # ret'.id => instances'[i] = instances[i]
                /\ instances'[i] = [instances[i] EXCEPT !.last_accessed_at =
                                       instances'[i].last_accessed_at]
          /\ (/\ instances[ret'.id].status # "none"
              /\ instances[ret'.id].user_id = ret'.user
              /\ instances[ret'.id].container_id = NULL)
             => /\ ret'.result \in {"no_container", "db_error"}
                /\ ret'.rt = <<>>
          /\ ret'.result = "no_container" => ret'.rt = <<>>
      ]_vars

\* C17 witness: Logs on a failed instance, which has no container, returned
\* the no-container error and set the row's last_accessed_at.
C17_Witness ==
    /\ Returned("logs", "no_container")
    /\ instances[ret.id].status = InstanceStatusFailed
    /\ instances[ret.id].container_id = NULL
    /\ instances[ret.id].last_accessed_at # NULL

\* C18 as claimed: an ArchivedInstance written with the retention period
\* DeleteInstance passes (30 days, also the default) has data_retained_until
\* equal to its deleted_at plus 30 days.
C18_RetainedUntilIsDeletedAtPlus30 ==
    [][ (Len(archive') > Len(archive) /\ arch.retentionDays = 30)
        => archive'[Len(archive')].data_retained_until
              = AddDate(archive'[Len(archive')].deleted_at, 30)
      ]_vars

ExpiredAndAvailable ==
    {archive[k].id : k \in {j \in 1..Len(archive) :
                              /\ archive[j].data_retained_until < clock
                              /\ archive[j].data_available}}

\* The step is the query of a sweep
SweepQueries == sweep.pc = "idle" /\ sweep'.pc = "flip"

\* The step is the return of a sweep that flipped all it found
SweepReturns == sweep.pc = "flip" /\ sweep'.pc = "idle" /\ sweep.pending = {}

\* C21: the query of a sweep returns exactly the records with
\* data_retained_until < now and data_available = true; a record changes
\* only by having its flag flipped to false by the sweep that found it; and
\* when the sweep returns every record it found is flipped.
C21_SweepFlipsExactlyExpired ==
    [][ /\ SweepQueries => sweep'.found = ExpiredAndAvailable
        /\ \A k \in 1..Len(archive) :
              archive'[k] # archive[k]
              => /\ archive[k].id \in sweep.found
                 /\ archive[k].data_retained_until < sweep.at
                 /\ archive[k].data_available
                 /\ archive'[k] = [archive[k] EXCEPT !.data_available = FALSE]
        /\ SweepReturns
           => \A k \in 1..Len(archive) :
                 archive[k].id \in sweep.found => ~archive[k].data_available
      ]_vars

\* C21 witness: a sweep has returned having flipped a record, and left
\* available a record whose deadline is the time of its query.
C21_Witness ==
    /\ sweep.pc = "idle"
    /\ sweep.lastAt = sweep.at
    /\ \E k \in 1..Len(archive) : /\ archive[k].id \in sweep.found
                                  /\ ~archive[k].data_available
    /\ \E k \in 1..Len(archive) : /\ archive[k].id \notin sweep.found
                                  /\ archive[k].data_available
                                  /\ archive[k].data_retained_until = sweep.at

\* C22: the query of a sweep that runs at the clock value of the last sweep
\* that returned, no record archived since that one's query, finds nothing;
\* and a sweep that found nothing returns without changing the archive.
C22_SweepTwiceIsNoOp ==
    [][ /\ (SweepQueries /\ sweep.lastAt = clock /\ sweep.lastLen = Len(archive))
           => sweep'.found = {}
        /\ (SweepReturns /\ sweep.found = {}) => archive' = archive
      ]_vars

\* C22 witness: a second sweep at the same clock value, after one that
\* flipped a record, has found nothing.
C22_Witness ==
    /\ sweep.pc = "flip"
    /\ sweep.found = {}
    /\ sweep.lastAt = sweep.at
    /\ sweep.lastLen = sweep.len
    /\ Len(archive) = sweep.len
    /\ clock = sweep.at
    /\ \E k \in 1..Len(archive) : /\ ~archive[k].data_available
                                  /\ archive[k].data_retained_until < clock

\* The request has passed validation and its slug, subdomain and container
\* name have been derived.
Derived == naming.pc \in {"entrypoint", "labels", "url", "done"}

\* C23: for every name that validation accepts, deriving the slug of the slug
\* gives the slug again.
C23_SlugIdempotent ==
    Derived => generateSlug(naming.slug) = naming.slug

\* A name with a space, a tab, an upper case letter or an underscore was
\* accepted, its slug is not empty and differs from the name, and deriving
\* again leaves it alone.
C23_Witness ==
    /\ naming.pc = "done"
    /\ \E k \in 1..Len(naming.name) : naming.name[k] \in {" ", "\t", "B", "_"}
    /\ naming.slug # <<>>
    /\ naming.slug # naming.name
    /\ generateSlug(naming.slug) = naming.slug

\* The derivation the specification gives: lower-case, every whitespace
\* character and underscore replaced by a hyphen, what is left outside
\* [a-z0-9-] stripped, repeated hyphens collapsed, outer hyphens trimmed.
ReferenceSlug(name) ==
    LET lower == ToLower(name)
        hyphened == [k \in 1..Len(lower) |->
                        IF lower[k] \in WhiteSpace \cup {"_"} THEN "-" ELSE lower[k]]
    IN Trim(CollapseHyphens(StripInvalid(hyphened)))

\* C24: for every name that validation accepts the slug is the reference
\* derivation of the name and the subdomain is "{owner}-{slug}.{baseDomain}".
C24_SlugIsReference ==
    Derived =>
        /\ naming.slug = ReferenceSlug(naming.name)
        /\ naming.subdomain =
               Username(naming.user) \o <<"-">> \o naming.slug \o <<".">> \o BaseDomain

\* The names the specification admits: 3 to 100 characters, each a letter, a
\* digit, the space, the underscore or the hyphen.
AdmittedName(name) ==
    /\ Len(name) >= 3
    /\ Len(name) <= 100
    /\ \A k \in 1..Len(name) :
          name[k] \in LowerLetters \cup UpperLetters \cup Digits \cup {" ", "_", "-"}

\* C25: CreateInstance rejects every name that is shorter than 3 or longer
\* than 100 characters or holds a character other than letters, digits, the
\* space, the underscore and the hyphen.
C25_InvalidNameRejected ==
    naming.pc # "validate" /\ ~AdmittedName(naming.name) => naming.pc = "rejected"

\* The routers of a label map: the names that have a rule label
Routers(labels) ==
    {k[2] : k \in {l \in DOMAIN labels : Len(l) = 3 /\ l[1] = "traefik.http.routers"
                                                    /\ l[3] = "rule"}}

\* The label of a router, "" when the map has none
RouterLabel(labels, router, field) ==
    LET key == <<"traefik.http.routers", router, field>> IN
    IF key \in DOMAIN labels THEN labels[key] ELSE ""

\* The redirect middlewares of a label map
RedirectMiddlewares(labels) ==
    {k[2] : k \in {l \in DOMAIN labels : Len(l) = 3 /\ l[1] = "traefik.http.middlewares"}}

\* The labels hold what the production configuration adds.
TLSLabels(labels) ==
    \E k \in DOMAIN labels : Len(k) = 3 /\ k[3] = "tls" /\ labels[k] = "true"

\* C30: outside production the labels hold exactly one router, which matches
\* the subdomain on the entrypoint web, with the backend port 8090, and no
\* middleware; in production that router is bound to a middleware that
\* redirects to https and there is a second router that matches the same host
\* on the entrypoint websecure with TLS on; the URL of the response is https
\* exactly when the TLS labels are there.
C30_RoutingLabels ==
    naming.pc = "done" =>
        LET labels == naming.labels
            router == naming.containerName
            secure == naming.containerName \o SecureSuffix
            host == <<"Host", naming.subdomain>>
            port == <<"traefik.http.services", router, "loadbalancer.server.port">>
        IN
        /\ RouterLabel(labels, router, "rule") = host
        /\ RouterLabel(labels, router, "entrypoints") = "web"
        /\ RouterLabel(labels, router, "tls") = ""
        /\ port \in DOMAIN labels /\ labels[port] = "8090"
        /\ IF naming.env = "production"
           THEN /\ Routers(labels) = {router, secure}
                /\ RouterLabel(labels, secure, "rule") = host
                /\ RouterLabel(labels, secure, "entrypoints") = "websecure"
                /\ RouterLabel(labels, secure, "tls") = "true"
                /\ RouterLabel(labels, router, "middlewares") \in RedirectMiddlewares(labels)
                /\ \A m \in RedirectMiddlewares(labels) :
                      labels[<<"traefik.http.middlewares", m, "redirectscheme.scheme">>]
                          = "https"
           ELSE /\ Routers(labels) = {router}
                /\ RedirectMiddlewares(labels) = {}
                /\ RouterLabel(labels, router, "middlewares") = ""
        /\ naming.url[1] = "https" <=> TLSLabels(labels)
        /\ naming.url[3] = naming.subdomain

\* A request was served in production: two routers, and an https URL.
C30_Witness ==
    /\ naming.pc = "done"
    /\ naming.env = "production"
    /\ Cardinality(Routers(naming.labels)) = 2
    /\ TLSLabels(naming.labels)
    /\ naming.url = <<"https", "://", naming.subdomain>>

\* The subdomain CreateInstance derives for the call c
SubdomainOf(c) == NewRow(c.user, c.name).subdomain

\* The call in slot s takes a step that is not the death of its process.
StepOf(s) == slots'[s] # slots[s] /\ ret'.result # "crashed"

\* C26: a CreateInstance of an owner who has a row in the table under another
\* name with the same slug is rejected by the subdomain check as a conflict,
\* and the check changes neither a row nor a container.
C26_SameSlugIsConflict ==
    [][\A s \in Slots :
          /\ slots[s].pc = "c_find"
          /\ StepOf(s)
          /\ \E i \in LiveIds : /\ instances[i].user_id = slots[s].user
                                /\ instances[i].name # slots[s].name
                                /\ instances[i].subdomain = SubdomainOf(slots[s])
          => /\ ret'.result = "conflict"
             /\ slots'[s] = Idle
             /\ UNCHANGED <<instances, containers>>]_vars

\* C27: no two rows of the instances table have the same subdomain, and no
\* two the same container name.
C27_SubdomainAndNameUnique ==
    \A i, j \in LiveIds :
        i # j => /\ instances[i].subdomain # instances[j].subdomain
                 /\ instances[i].container_name # instances[j].container_name

\* Two owners created at the same time instances that derive the same
\* subdomain: the row of user 1 is in the table, its call still at the
\* container, and the INSERT of user 2 has just been refused.
C27_Witness ==
    /\ Returned("create", "insert_failed")
    /\ ret.user = 2
    /\ \E i \in LiveIds, s \in Slots :
          /\ instances[i].user_id = 1
          /\ instances[i].subdomain = generateSubdomain(Username(2), <<"c", "c", "c">>)
          /\ slots[s].op = "create" /\ slots[s].id = i /\ slots[s].pc = "c_container"

\* C28: once DeleteInstance has written the archive record, a StopContainer
\* or RemoveContainer that fails does not end the call: it goes on to the
\* next statement with the tables as they were, and the DELETE it reaches
\* removes the row and the call returns nil (or the DELETE itself fails).
C28_TeardownFailureDoesNotAbort ==
    [][\A s \in Slots :
          /\ slots[s].pc = "d_stop" /\ StepOf(s)
             => /\ slots'[s].pc = "d_remove"
                /\ ret' = NoRet
                /\ UNCHANGED <<instances, archive>>
          /\ slots[s].pc = "d_remove" /\ StepOf(s)
             => /\ slots'[s].pc = "d_delete"
                /\ ret' = NoRet
                /\ UNCHANGED <<instances, archive>>
          /\ slots[s].pc = "d_delete" /\ StepOf(s)
             => \/ /\ ret' = Return(slots[s], "ok")
                   /\ instances'[slots[s].id] = NoRow
                   /\ ArchivedOf(slots[s].id) # {}
                \/ /\ ret' = Return(slots[s], "delete_failed")
                   /\ UNCHANGED instances]_vars

\* A DeleteInstance returned nil although both Docker calls failed: the row
\* is gone and archived, the container still runs.
C28_Witness ==
    /\ Returned("delete", "ok")
    /\ ret.rt = <<"stop", "remove">>
    /\ ~Live(ret.id)
    /\ ArchivedOf(ret.id) # {}
    /\ containers[ret.id].state = "running"

\* C29: while a failed row is in the table, a CreateInstance of its owner
\* with its name is rejected by the subdomain check as a conflict, and the
\* check changes neither a row nor a container.
C29_RetryOverFailedIsConflict ==
    [][\A s \in Slots :
          /\ slots[s].pc = "c_find"
          /\ StepOf(s)
          /\ \E i \in LiveIds : /\ instances[i].user_id = slots[s].user
                                /\ instances[i].name = slots[s].name
                                /\ instances[i].status = InstanceStatusFailed
          => /\ ret'.result = "conflict"
             /\ slots'[s] = Idle
             /\ UNCHANGED <<instances, containers>>]_vars

\* C32: the bootstrap credentials of a CreateInstance are in no file written
\* to the data directory of the instance.
C32_CredentialsNotInDataDirectory ==
    \A f \in naming.files :
        f.dir = generateStoragePath(Username(naming.user), naming.slug)
            => \A k \in 1..Len(f.content) : f.content[k] # naming.adminPassword

\* C40: the slug of every name that validation accepts is not empty.
C40_SlugNotEmpty ==
    Derived => \E k \in 1..Len(naming.slug) : naming.slug[k] \in LowerLetters \cup Digits

C34_LiveDataPathNotArchived ==
    \A i \in LiveIds : \A k \in 1..Len(archive) :
        archive[k].id # i /\ archive[k].data_available
            => archive[k].data_path # instances[i].data_path

\* C35: a DeleteInstance by the owner of a row that an earlier DeleteInstance
\* archived and left in the table, no other DeleteInstance of the row being in
\* flight, gets past the archive step.
C35_RetriedDeleteCompletes ==
    [][\A s \in Slots :
          /\ slots[s].pc = "d_archive"
          /\ StepOf(s)
          /\ Live(slots[s].id)
          /\ ArchivedOf(slots[s].id) # {}
          /\ \A t \in Slots \ {s} : ~(slots[t].op = "delete" /\ slots[t].id = slots[s].id)
          => slots'[s].pc \in {"d_stop", "d_delete"}]_vars

\* C36: when CreateInstance returns an error after the container was
\* created, the row, if still in the table, is failed, and its container is
\* not running.
C36_LateCreateErrorEndsFailed ==
    ret.op = "create" /\ ret.result \in {"update_failed", "status_failed"}
        => /\ Live(ret.id) => instances[ret.id].status = InstanceStatusFailed
           /\ containers[ret.id].state # "running"

\* C37: a running or stopped row has a container id, and Start, Stop and
\* Restart call Docker only with the container id of the row they read.
C37_RunningOrStoppedHasContainer ==
    /\ [](\A i \in LiveIds :
            instances[i].status \in {InstanceStatusRunning, InstanceStatusStopped}
                => instances[i].container_id # NULL)
    /\ [][\A s \in Slots :
             slots[s].pc = "l_runtime" /\ StepOf(s)
                 => slots[s].inst.container_id # NULL]_vars

\* A Start, Stop or Restart of a row without a container id (a creating or
\* failed row) was refused before any Docker call, and another row is
\* running with its container id.
C37_Witness ==
    /\ ret.op \in {"start", "stop", "restart"}
    /\ ret.result = "no_container"
    /\ ret.rt = <<>>
    /\ Live(ret.id)
    /\ instances[ret.id].container_id = NULL
    /\ instances[ret.id].status \in {InstanceStatusCreating, InstanceStatusFailed}
    /\ \E i \in LiveIds : /\ instances[i].status = InstanceStatusRunning
                          /\ instances[i].container_id # NULL

\* C39: a CreateInstance is rejected as a conflict only when a row of its
\* own caller holds the subdomain.
C39_ConflictOnlyWithOwnRows ==
    [][\A s \in Slots :
          slots[s].pc = "c_find" /\ StepOf(s) /\ ret'.result = "conflict"
              => \E i \in LiveIds : /\ instances[i].user_id = slots[s].user
                                    /\ instances[i].subdomain = SubdomainOf(slots[s])]_vars

\* No call is working on instance i.
Quiet(i) == \A s \in Slots : slots[s].id # i

\* C33: when no call is working on an instance, its row is running exactly
\* when its container is running, and stopped exactly when it is not.
C33_StatusAgreesWithRuntime ==
    \A i \in LiveIds :
        Quiet(i) /\ instances[i].status \in {InstanceStatusRunning, InstanceStatusStopped}
            => (instances[i].status = InstanceStatusRunning
                    <=> containers[i].state = "running")

\* C38: once no call is working on an instance, a container created for it
\* has a row in the table that is bound to it.
C38_NoContainerWithoutRow ==
    \A i \in Ids :
        Quiet(i) /\ containers[i] # NoContainer
            => Live(i) /\ instances[i].container_id = i

====
